---- MODULE Spec2Model ----
(***************************************************************************)
(* State-machine model of main.py: LogManager (setup_logging,              *)
(* _cleanup_old_logs), Application (greet, run) and the entry point main,  *)
(* together with the part of the standard logging machinery their          *)
(* behaviour rests on (logger levels, handler thresholds, propagation to   *)
(* the root logger, basicConfig).                                          *)
(*                                                                         *)
(* Time is a tick counter; DayTicks ticks make one calendar day.  A file   *)
(* name is a tuple of name parts, <<"app_", "1", ".log">> for app_1.log.   *)
(* A line written to a stream or a log file is a record                    *)
(* [sev, msg, detail, ref]: msg is the fixed part of the text, detail the  *)
(* text of the exception it quotes ("" when none), ref the correlation id  *)
(* or the file path it quotes ("" when none).                              *)
(***************************************************************************)
EXTENDS Integers, Sequences, FiniteSets, TLC

VARIABLES
    now,            \* the wall clock (datetime.now()), in ticks
    retention_days, \* LogManager.retention_days
    files,          \* the log directory: a set of [name, mtime]
    lmLogger,       \* LogManager.logger is not None
    appLogger,      \* Application.logger is not None
    mainLevel,      \* level of logging.getLogger('main_app')
    mainHandlers,   \* its handlers, in the order they were added
    rootLevel,      \* level of the root logger
    rootHandlers,   \* handlers of the root logger
    stdout,         \* lines written to sys.stdout by the last operation
    stderr,         \* lines written to sys.stderr by the last operation
    logfile,        \* lines written through a file handler by the last operation
    logged,         \* records the last operation logged (passed the logger's level)
    stats,          \* what stat() returned in the last operation: a set of [name, mtime]
    last,           \* the last operation: its inputs and how it ended
    pc,             \* "idle": ready for an operation; "done": one has ended
    ops             \* the number of operations called so far

vars == <<now, retention_days, files, lmLogger, appLogger, mainLevel, mainHandlers,
          rootLevel, rootHandlers, stdout, stderr, logfile, logged, stats, last, pc, ops>>

----------------------------------------------------------------------------
(* Bounds of the model *)

\* ticks per calendar day
DayTicks == 2
\* the clock at process start
InitNow == 3
\* the clock never passes MaxTime
MaxTime == 4
\* retention periods 0..MaxRetention days are tried
MaxRetention == 1
\* a behaviour calls at most MaxOps operations
MaxOps == 2

----------------------------------------------------------------------------
(* Exceptions *)

Exc(type, text) == [type |-> type, text |-> text]
NoExc == Exc("none", "")
\* what "except Exception" catches: everything raised but KeyboardInterrupt
\* and SystemExit
IsException(e) == e.type \notin {"none", "KeyboardInterrupt", "SystemExit"}
\* the outcome of a call: the world after it, what it raised, what it returned
Outcome(W, exc, ret) == [W |-> W, exc |-> exc, ret |-> ret]

----------------------------------------------------------------------------
(* The logging machinery *)

\* numeric order of the severities (logging.DEBUG < INFO < WARNING < ERROR),
\* NOTSET below all of them
Rank(level) ==
    CASE level = "NOTSET" -> 0
      [] level = "DEBUG" -> 1
      [] level = "INFO" -> 2
      [] level = "WARNING" -> 3
      [] level = "ERROR" -> 4

Line(sev, msg, detail, ref) == [sev |-> sev, msg |-> msg, detail |-> detail, ref |-> ref]

\* The part of the state an operation reads and writes, threaded through
\* the operators below.
World ==
    [clock |-> now, files |-> files,
     mainLevel |-> mainLevel, mainHandlers |-> mainHandlers,
     rootLevel |-> rootLevel, rootHandlers |-> rootHandlers,
     out |-> <<>>, err |-> <<>>, flog |-> <<>>, logged |-> <<>>, stats |-> {}]

\* a file's modification time becomes t (a write to a file no longer in the
\* directory changes nothing in the directory)
Touch(fs, name, t) ==
    {IF f.name = name THEN [f EXCEPT !.mtime = t] ELSE f : f \in fs}

\* Handler.emit: one line to the handler's stream
Emit(W, h, rec) ==
    CASE h.stream = "stdout" -> [W EXCEPT !.out = Append(@, rec)]
      [] h.stream = "stderr" -> [W EXCEPT !.err = Append(@, rec)]
      [] h.stream = "file" ->
            [W EXCEPT !.flog = Append(@, rec),
                      !.files = Touch(@, h.file, W.clock)]

\* Logger.callHandlers over one logger's handlers: a handler takes the
\* record when the record's severity reaches the handler's level
RECURSIVE CallHandlers(_, _, _)
CallHandlers(W, hs, rec) ==
    IF hs = <<>> THEN W
    ELSE CallHandlers(
            IF Rank(rec.sev) >= Rank(Head(hs).level) THEN Emit(W, Head(hs), rec) ELSE W,
            Tail(hs), rec)

\* Logger.getEffectiveLevel of 'main_app': its own level, or the root's
EffectiveLevel(W) ==
    IF W.mainLevel # "NOTSET" THEN W.mainLevel ELSE W.rootLevel

\* self.logger.<sev>(...) on 'main_app': dropped below the effective level,
\* else handled by its own handlers and then (propagate) by the root's
LogMain(W, sev, msg, detail, ref) ==
    IF Rank(sev) < Rank(EffectiveLevel(W)) THEN W
    ELSE CallHandlers(
            CallHandlers([W EXCEPT !.logged = Append(@, Line(sev, msg, detail, ref))],
                         W.mainHandlers, Line(sev, msg, detail, ref)),
            W.rootHandlers, Line(sev, msg, detail, ref))

\* logging.basicConfig(level=INFO, ...): does nothing when the root logger
\* has a handler; else adds a stderr handler and sets the root level
BasicConfig(W) ==
    IF W.rootHandlers # <<>> THEN W
    ELSE [W EXCEPT !.rootHandlers =
                       <<[kind |-> "basic", level |-> "NOTSET",
                          stream |-> "stderr", file |-> <<>>]>>,
                   !.rootLevel = "INFO"]

\* logging.error(...): a record on the root logger
LogRoot(W, sev, msg, detail, ref) ==
    IF Rank(sev) < Rank(W.rootLevel) THEN W
    ELSE CallHandlers([W EXCEPT !.logged = Append(@, Line(sev, msg, detail, ref))],
                      W.rootHandlers, Line(sev, msg, detail, ref))

----------------------------------------------------------------------------
(* LogManager._cleanup_old_logs *)

\* str(path) of a file of the log directory
RECURSIVE PathStr(_)
PathStr(name) == IF name = <<>> THEN "" ELSE Head(name) \o PathStr(Tail(name))

\* self.log_dir.glob("app_*.log*") on a name: it starts with "app_" and
\* ".log" follows somewhere after
GlobMatch(name) ==
    /\ Len(name) >= 2
    /\ name[1] = "app_"
    /\ \E i \in 2..Len(name) : name[i] = ".log"

\* datetime.now() - timedelta(days=self.retention_days)
CutoffDate(t, days) == t - days * DayTicks

\* the order in which glob yields the names
RECURSIVE GlobOrder(_)
GlobOrder(S) ==
    IF S = {} THEN <<>>
    ELSE LET n == CHOOSE x \in S : \A y \in S : Len(PathStr(x)) <= Len(PathStr(y))
         IN  <<n>> \o GlobOrder(S \ {n})

\* log_file.stat(): the file as the directory holds it now
Stat(fs, name) == CHOOSE f \in fs : f.name = name
Seen(W, name) == [W EXCEPT !.stats = @ \cup {Stat(W.files, name)}]

\* A cleanup fault plan: statBad, the files whose stat() raises; unlinkBad,
\* those whose unlink() raises; enumFail, enumerating the directory raises
\* after the files of `visited` were yielded.
NoCleanupFault ==
    [statBad |-> {}, unlinkBad |-> {}, enumFail |-> FALSE, visited |-> {}]

\* self.logger.<sev>(...) under "if self.logger:"
LogIf(hasLogger, W, sev, msg, detail, ref) ==
    IF hasLogger THEN LogMain(W, sev, msg, detail, ref) ELSE W

\* log_file.unlink()
Unlink(W, name) == [W EXCEPT !.files = {f \in @ : f.name # name}]

\* ProcessLogFile with "<=" for "<": a file modified exactly at the cutoff
\* is removed too
ProcessLogFile_AtOrBefore(W, name, cutoff, hasLogger, cf) ==
    IF name \in cf.statBad THEN Outcome(W, Exc("OSError", "stat failed"), "")
    ELSE IF Stat(W.files, name).mtime <= cutoff
         THEN IF name \in cf.unlinkBad
              THEN Outcome(Seen(W, name), Exc("PermissionError", "unlink failed"), "")
              ELSE Outcome(LogIf(hasLogger, Unlink(Seen(W, name), name), "DEBUG",
                                 "Removed old log file", "", PathStr(name)),
                           NoExc, "")
         ELSE Outcome(Seen(W, name), NoExc, "")

\* the body of the inner try: stat, compare with the cutoff, unlink, debug
ProcessLogFile(W, name, cutoff, hasLogger, cf) ==
    IF name \in cf.statBad THEN Outcome(W, Exc("OSError", "stat failed"), "")
    ELSE IF Stat(W.files, name).mtime < cutoff
         THEN IF name \in cf.unlinkBad
              THEN Outcome(Seen(W, name), Exc("PermissionError", "unlink failed"), "")
              ELSE Outcome(LogIf(hasLogger, Unlink(Seen(W, name), name), "DEBUG",
                                 "Removed old log file", "", PathStr(name)),
                           NoExc, "")
         ELSE Outcome(Seen(W, name), NoExc, "")

\* ExceptLogFile with the inner try/except missing: the exception leaves
\* the loop
ExceptLogFile_NotCaught(r, name, hasLogger) == r

\* the inner except clause: an Exception r raised for one file is logged
\* as a warning
ExceptLogFile(r, name, hasLogger) ==
    IF IsException(r.exc)
    THEN Outcome(LogIf(hasLogger, r.W, "WARNING", "Failed to process log file",
                       r.exc.text, PathStr(name)),
                 NoExc, "")
    ELSE r

\* the inner try/except around one file
TryProcessLogFile(W, name, cutoff, hasLogger, cf) ==
    ExceptLogFile(ProcessLogFile(W, name, cutoff, hasLogger, cf), name, hasLogger)

\* the for loop over the names glob yields: after one file's outcome r the
\* loop goes on with the rest unless something was raised out of the try
RECURSIVE CleanupLoop(_, _, _, _, _)
RECURSIVE LoopNext(_, _, _, _, _)
LoopNext(r, rest, cutoff, hasLogger, cf) ==
    IF r.exc # NoExc THEN r ELSE CleanupLoop(r.W, rest, cutoff, hasLogger, cf)

CleanupLoop(W, names, cutoff, hasLogger, cf) ==
    IF names = <<>> THEN Outcome(W, NoExc, "")
    ELSE LoopNext(TryProcessLogFile(W, Head(names), cutoff, hasLogger, cf),
                  Tail(names), cutoff, hasLogger, cf)

\* the names glob yields: all that match, or only `visited` when
\* enumerating fails
Yielded(fs, cf) ==
    IF cf.enumFail THEN {f.name : f \in {g \in fs : GlobMatch(g.name)}} \cap cf.visited
    ELSE {f.name : f \in {g \in fs : GlobMatch(g.name)}}

\* enumerating the directory raises once the loop has gone through the
\* names it yielded
EnumEnd(r, cf) ==
    IF r.exc = NoExc /\ cf.enumFail
    THEN Outcome(r.W, Exc("OSError", "scandir failed"), "")
    ELSE r

\* the body of the outer try
CleanupBody(W, days, hasLogger, cf) ==
    EnumEnd(CleanupLoop(W, GlobOrder(Yielded(W.files, cf)),
                        CutoffDate(W.clock, days), hasLogger, cf),
            cf)

\* the outer except clause: an Exception is logged as an error
ExceptCleanup(r, hasLogger) ==
    IF IsException(r.exc)
    THEN Outcome(LogIf(hasLogger, r.W, "ERROR", "Failed to cleanup old logs",
                       r.exc.text, ""),
                 NoExc, "")
    ELSE r

\* _cleanup_old_logs
CleanupOldLogs(W, days, hasLogger, cf) ==
    ExceptCleanup(CleanupBody(W, days, hasLogger, cf), hasLogger)

----------------------------------------------------------------------------
(* LogManager.setup_logging *)

\* f"app_{datetime.now().strftime('%Y%m%d')}.log": named for the calendar day
LogFileName(t) == <<"app_", ToString(t \div DayTicks), ".log">>

\* logging.DEBUG if verbose else logging.INFO
VerboseLevel(verbose) == IF verbose THEN "DEBUG" ELSE "INFO"

\* TimedRotatingFileHandler(log_file, ...) with setLevel(DEBUG)
FileHandler(name) ==
    [kind |-> "file", level |-> "DEBUG", stream |-> "file", file |-> name]

\* StreamHandler(sys.stdout) with setLevel(DEBUG if verbose else INFO)
ConsoleHandler(verbose) ==
    [kind |-> "console", level |-> VerboseLevel(verbose), stream |-> "stdout",
     file |-> <<>>]

\* A setup fault: the step that raises ("none": no step does) and whether it
\* raises an Exception ("exc") or a KeyboardInterrupt ("interrupt").
NoSetupFault == [step |-> "none", kind |-> "exc"]
Raised(fault, text) ==
    IF fault.kind = "interrupt" THEN Exc("KeyboardInterrupt", "")
    ELSE Exc("OSError", text)

\* the outcome of setup_logging: lm is "self.logger is not None" after it
SetupOutcome(W, exc, ret, lm) == [W |-> W, exc |-> exc, ret |-> ret, lm |-> lm]

\* Reconfigure without handlers.clear(): the handlers of earlier calls stay
Reconfigure_KeepsHandlers(W, verbose) ==
    [W EXCEPT !.mainLevel = VerboseLevel(verbose)]

\* self.logger.setLevel(...) and self.logger.handlers.clear()
Reconfigure(W, verbose) ==
    [W EXCEPT !.mainLevel = VerboseLevel(verbose), !.mainHandlers = <<>>]

\* the file handler opens, so creates, log_file and is added to the logger
AddFileHandler(W, log_file) ==
    [W EXCEPT
       !.files = IF \E f \in @ : f.name = log_file THEN @
                 ELSE @ \cup {[name |-> log_file, mtime |-> W.clock]},
       !.mainHandlers = Append(@, FileHandler(log_file))]

\* the console handler is added to the logger; the clock stands dt ticks
\* later when the cleanup pass reads it
AddConsoleHandler(W, verbose, dt) ==
    [W EXCEPT !.mainHandlers = Append(@, ConsoleHandler(verbose)), !.clock = @ + dt]

\* after the cleanup pass c: the confirmation record, and the logger returned
SetupEnd(c) ==
    IF c.exc # NoExc THEN SetupOutcome(c.W, c.exc, "", TRUE)
    ELSE SetupOutcome(
            LogMain(c.W, "INFO", "Logging system initialized successfully", "", ""),
            NoExc, "logger", TRUE)

\* the body of the try: mkdir, getLogger/setLevel, handlers.clear(), the file
\* handler, the console handler, the cleanup pass, the confirmation record
SetupBody(W, verbose, days, hasLogger, sf, dt, cf) ==
    CASE sf.step = "mkdir" ->
            SetupOutcome(W, Raised(sf, "mkdir failed"), "", hasLogger)
      [] sf.step = "file_handler" ->
            SetupOutcome(Reconfigure(W, verbose),
                         Raised(sf, "Handler creation failed"), "", TRUE)
      [] sf.step = "console_handler" ->
            SetupOutcome(AddFileHandler(Reconfigure(W, verbose), LogFileName(W.clock)),
                         Raised(sf, "Stream handler failed"), "", TRUE)
      [] sf.step = "none" ->
            SetupEnd(CleanupOldLogs(
                        AddConsoleHandler(
                            AddFileHandler(Reconfigure(W, verbose), LogFileName(W.clock)),
                            verbose, dt),
                        days, TRUE, cf))

\* ExceptSetup returning self.logger, which is still None when mkdir failed
\* in the first call
ExceptSetup_ReturnsSelfLogger(r) ==
    IF IsException(r.exc)
    THEN SetupOutcome(
            LogRoot(BasicConfig(r.W), "ERROR", "Failed to setup advanced logging",
                    r.exc.text, ""),
            NoExc, IF r.lm THEN "logger" ELSE "None", r.lm)
    ELSE r

\* the except clause, the fallback: basicConfig, one error record on the
\* root logger, and logging.getLogger('main_app') returned
ExceptSetup(r) ==
    IF IsException(r.exc)
    THEN SetupOutcome(
            LogRoot(BasicConfig(r.W), "ERROR", "Failed to setup advanced logging",
                    r.exc.text, ""),
            NoExc, "logger", r.lm)
    ELSE r

SetupLogging(W, verbose, days, hasLogger, sf, dt, cf) ==
    ExceptSetup(SetupBody(W, verbose, days, hasLogger, sf, dt, cf))

----------------------------------------------------------------------------
(* Application.greet *)

\* How greet behaves: impl "real" is the method of main.py with print()
\* ending as `effect` ("ok", "exc": it raises OSError, "interrupt": the user
\* interrupts it); impl "stub" is a replacement as the tests install, whose
\* effect is to raise ("ApplicationError", "KeyboardInterrupt",
\* "RuntimeError") or to return False ("false").  text is the raised
\* exception's text.
GreetMode(impl, effect, text) == [impl |-> impl, effect |-> effect, text |-> text]
RealOk == GreetMode("real", "ok", "")

\* print(message)
PrintOut(W, msg) == [W EXCEPT !.out = Append(@, Line("PRINT", msg, "", ""))]

\* greet's except clause: the error record, the traceback at debug
\* severity, and ApplicationError raised
ExceptGreet(W, text) ==
    Outcome(LogMain(LogMain(W, "ERROR", "Error in greeting function", text, ""),
                    "DEBUG", "Greeting function traceback", text, ""),
            Exc("ApplicationError", "Failed to display greeting: " \o text),
            "")

\* greet after its first record, with self.logger set (run sets it before
\* it calls greet)
GreetPrint(W, g) ==
    CASE g.effect = "ok" ->
            Outcome(LogMain(PrintOut(W, "Hello, world!"),
                            "INFO", "Greeting displayed", "", ""),
                    NoExc, "True")
      [] g.effect = "interrupt" -> Outcome(W, Exc("KeyboardInterrupt", ""), "")
      [] g.effect = "exc" -> ExceptGreet(W, g.text)

RealGreet(W, g) ==
    GreetPrint(LogMain(W, "INFO", "Executing greeting function", "", ""), g)

Greet(W, g) ==
    IF g.impl = "real" THEN RealGreet(W, g)
    ELSE IF g.effect = "false" THEN Outcome(W, NoExc, "False")
         ELSE Outcome(W, Exc(g.effect, g.text), "")

\* greet called on an Application whose logger is set (hasLogger) or still
\* None: with None, self.logger.info in the try raises AttributeError, the
\* except clause takes it, and its own self.logger.error raises
\* AttributeError again, which leaves greet
ApplicationGreet(W, hasLogger, g) ==
    IF hasLogger THEN RealGreet(W, g)
    ELSE Outcome(W, Exc("AttributeError", "'NoneType' object has no attribute"), "")

----------------------------------------------------------------------------
(* Application.run *)

\* the outcome of run: ret the returned exit code (when exc = NoExc), app
\* and lm whether Application.logger and LogManager.logger are set after
\* it, greet how its call of greet ended
RunOutcome(W, exc, ret, app, lm, greet) ==
    [W |-> W, exc |-> exc, ret |-> ret, app |-> app, lm |-> lm, greet |-> greet]
NotCalled == [called |-> FALSE, exc |-> NoExc, ret |-> ""]
Called(gr) == [called |-> TRUE, exc |-> gr.exc, ret |-> gr.ret]

\* print(..., file=sys.stderr)
PrintErr(W, msg, detail, ref) ==
    [W EXCEPT !.err = Append(@, Line("PRINT", msg, detail, ref))]

\* datetime.now().strftime("%Y%m%d_%H%M%S")
ErrorId(t) == "id_" \o ToString(t)

\* after greet's outcome gr: the success (or failure) record and the code
RunEnd(gr, lm) ==
    IF gr.exc # NoExc THEN RunOutcome(gr.W, gr.exc, 0, TRUE, lm, Called(gr))
    ELSE IF gr.ret = "True"
    THEN RunOutcome(LogMain(gr.W, "INFO", "Application completed successfully", "", ""),
                    NoExc, 0, TRUE, lm, Called(gr))
    ELSE RunOutcome(LogMain(gr.W, "ERROR", "Application completed with errors", "", ""),
                    NoExc, 1, TRUE, lm, Called(gr))

\* after setup_logging's outcome s.  st is what happens while the start is
\* recorded: "none", "interrupt" (the user interrupts "Application
\* starting") or "exc" (recording the arguments raises).
RunStart(s, app, st, g) ==
    IF s.exc # NoExc THEN RunOutcome(s.W, s.exc, 0, app, s.lm, NotCalled)
    ELSE CASE st = "interrupt" ->
                RunOutcome(s.W, Exc("KeyboardInterrupt", ""), 0, TRUE, s.lm, NotCalled)
           [] st = "exc" ->
                RunOutcome(LogMain(s.W, "INFO", "Application starting", "", ""),
                           Exc("TypeError", "vars() argument"), 0, TRUE, s.lm, NotCalled)
           [] st = "none" ->
                RunEnd(Greet(LogMain(LogMain(s.W, "INFO", "Application starting", "", ""),
                                     "DEBUG", "Command line arguments", "", ""),
                             g),
                       s.lm)

\* the body of run's try
RunBody(W, app, lm, verbose, days, sf, dt, cf, st, g) ==
    RunStart(SetupLogging(W, verbose, days, lm, sf, dt, cf), app, st, g)

\* self.logger.<sev>(...) in an except clause: with self.logger still None
\* the attribute lookup raises AttributeError, which leaves the clause
NoneTypeError == Exc("AttributeError", "'NoneType' object has no attribute")

\* the "except Exception" clause: the error record, the traceback at debug
\* severity, and the two lines on stderr
Unexpected(W, text, error_id) ==
    PrintErr(
        PrintErr(
            LogMain(LogMain(W, "ERROR", "Unexpected error", text, error_id),
                    "DEBUG", "Unexpected error traceback", text, error_id),
            "An unexpected error occurred. Error ID: ", "", error_id),
        "Please check the log files for more details.", "", "")

\* RunExcept with the interruption clause missing: a KeyboardInterrupt is
\* not an Exception, so it leaves run
RunExcept_NoInterruptClause(r) ==
    CASE r.exc.type = "none" -> r
      [] r.exc.type = "ApplicationError" ->
            [r EXCEPT
                !.W = PrintErr(LogMain(r.W, "ERROR", "Application error", r.exc.text, ""),
                               "Error: ", r.exc.text, ""),
                !.exc = NoExc, !.ret = 1]
      [] r.exc.type \notin {"none", "ApplicationError"} /\ IsException(r.exc) ->
            [r EXCEPT !.W = Unexpected(r.W, r.exc.text, ErrorId(r.W.clock)),
                      !.exc = NoExc, !.ret = 1]
      [] OTHER -> r

\* run's except clauses, chosen by the type of what the body raised
RunExcept(r) ==
    CASE r.exc.type = "none" -> r
      [] r.exc.type = "ApplicationError" ->
            IF ~r.app THEN [r EXCEPT !.exc = NoneTypeError]
            ELSE [r EXCEPT
                    !.W = PrintErr(LogMain(r.W, "ERROR", "Application error",
                                           r.exc.text, ""),
                                   "Error: ", r.exc.text, ""),
                    !.exc = NoExc, !.ret = 1]
      [] r.exc.type = "KeyboardInterrupt" ->
            IF ~r.app THEN [r EXCEPT !.exc = NoneTypeError]
            ELSE [r EXCEPT
                    !.W = PrintErr(LogMain(r.W, "INFO", "Application interrupted by user",
                                           "", ""),
                                   "Application interrupted by user.", "", ""),
                    !.exc = NoExc, !.ret = 130]
      [] r.exc.type \notin {"none", "ApplicationError", "KeyboardInterrupt"}
            /\ IsException(r.exc) ->
            IF ~r.app THEN [r EXCEPT !.exc = NoneTypeError]
            ELSE [r EXCEPT !.W = Unexpected(r.W, r.exc.text, ErrorId(r.W.clock)),
                           !.exc = NoExc, !.ret = 1]
      [] OTHER -> r

\* run's finally clause
RunFinally(r) ==
    IF r.app THEN [r EXCEPT !.W = LogMain(@, "INFO", "Application shutdown", "", "")]
    ELSE r

Run(W, app, lm, verbose, days, sf, dt, cf, st, g) ==
    RunFinally(RunExcept(RunBody(W, app, lm, verbose, days, sf, dt, cf, st, g)))

----------------------------------------------------------------------------
(* main *)

\* LogManager.__init__'s default retention_days, which Application() uses
DefaultRetention == 30

\* parser.parse_args(): the verbose flag, or the parser ends the process
\* (help: usage on stdout, code 0; an unknown flag: usage on stderr, code 2)
ParseArgs(W, argv) ==
    CASE argv = <<>> -> Outcome(W, NoExc, "False")
      [] argv \in {<<"-v">>, <<"--verbose">>} -> Outcome(W, NoExc, "True")
      [] argv \in {<<"-h">>, <<"--help">>} ->
            Outcome([W EXCEPT !.out = Append(@, Line("PRINT", "usage", "", ""))],
                    Exc("SystemExit", "0"), "")
      [] OTHER ->
            Outcome(PrintErr(W, "usage: unrecognized arguments", "", ""),
                    Exc("SystemExit", "2"), "")

\* sys.exit(code)
SysExit(code) == Exc("SystemExit", ToString(code))

\* the outcome of main: ran tells whether run was invoked, run is its outcome
MainOutcome(W, exc, ran, run) == [W |-> W, exc |-> exc, ran |-> ran, run |-> run]
NotRun == RunOutcome(<<>>, NoExc, 0, FALSE, FALSE, NotCalled)

\* after run's outcome r: sys.exit(exit_code)
MainExit(r) ==
    MainOutcome(r.W, IF r.exc # NoExc THEN r.exc ELSE SysExit(r.ret), TRUE, r)

\* after parse_args' outcome a: run on the new Application, whose loggers
\* are None and whose LogManager has the default retention
MainRun(a, sf, dt, cf, g) ==
    IF a.exc # NoExc THEN MainOutcome(a.W, a.exc, FALSE, NotRun)
    ELSE MainExit(Run(a.W, FALSE, FALSE, a.ret = "True", DefaultRetention,
                      sf, dt, cf, "none", g))

\* the body of main's try: Application() (which raises when ctorFails),
\* parse_args, run, sys.exit
MainBody(W, argv, ctorFails, sf, dt, cf, g) ==
    IF ctorFails
    THEN MainOutcome(W, Exc("Exception", "Critical startup error"), FALSE, NotRun)
    ELSE MainRun(ParseArgs(W, argv), sf, dt, cf, g)

\* ExceptMain with the "except Exception" clause missing
ExceptMain_NoExceptionClause(m) == m

\* main's except clauses: SystemExit is re-raised; an Exception is reported
\* on stderr and the process exits with 1; anything else leaves main
ExceptMain(m) ==
    IF IsException(m.exc)
    THEN [m EXCEPT
            !.W = PrintErr(PrintErr(@, "Critical error during application startup: ",
                                    m.exc.text, ""),
                           "Unable to initialize logging system.", "", ""),
            !.exc = SysExit(1)]
    ELSE m

Main(W, argv, ctorFails, sf, dt, cf, g) ==
    ExceptMain(MainBody(W, argv, ctorFails, sf, dt, cf, g))

----------------------------------------------------------------------------
(* Inputs *)

\* the files a log directory may hold at the start: an old dated log, a
\* rotated segment of it, and a file the pattern does not match
OldLog == <<"app_", "0", ".log">>
RotatedLog == <<"app_", "0", ".log", ".1">>
OtherFile == <<"sys_", "0", ".log">>
InitFiles ==
    {[name |-> OldLog, mtime |-> 0], [name |-> RotatedLog, mtime |-> 1],
     [name |-> OtherFile, mtime |-> 0]}
FaultNames == {OldLog, RotatedLog}

SetupFaults ==
    {NoSetupFault}
    \cup [step : {"mkdir", "file_handler", "console_handler"}, kind : {"exc", "interrupt"}]

\* the fault plans of a cleanup pass called on its own
CleanupFaults ==
    {cf \in [statBad : SUBSET FaultNames, unlinkBad : SUBSET FaultNames,
             enumFail : BOOLEAN, visited : SUBSET FaultNames] :
        /\ cf.statBad \cap cf.unlinkBad = {}
        /\ ~cf.enumFail => cf.visited = {}}

\* the fault plans of the cleanup pass inside setup_logging
SetupCleanupFaults ==
    {cf \in CleanupFaults : Cardinality(cf.statBad) + Cardinality(cf.unlinkBad) <= 1
                            /\ cf.visited = {}}

GreetModes ==
    {RealOk, GreetMode("real", "exc", "Output stream error"),
     GreetMode("real", "interrupt", ""),
     GreetMode("stub", "ApplicationError", "Test error"),
     GreetMode("stub", "KeyboardInterrupt", ""),
     GreetMode("stub", "RuntimeError", "secret A"),
     GreetMode("stub", "RuntimeError", "secret B"),
     GreetMode("stub", "false", "")}

\* the greet of the program as shipped
RealGreetModes == {g \in GreetModes : g.impl = "real"}

Argvs == {<<>>, <<"-v">>, <<"--verbose">>, <<"-h">>, <<"--help">>, <<"--invalid-flag">>}

\* the inputs of one call of run: a fault in the cleanup pass or a clock
\* tick during setup is tried with the other steps running undisturbed
RunInputs ==
    {i \in [verbose : BOOLEAN, sf : SetupFaults, dt : 0..1, cf : SetupCleanupFaults,
            st : {"none", "interrupt", "exc"}, g : GreetModes] :
        /\ i.sf.kind = "interrupt" => i.g = RealOk /\ i.st = "none"
        /\ i.st # "none" => i.g = RealOk
        /\ i.cf # NoCleanupFault \/ i.dt # 0 =>
              i.sf = NoSetupFault /\ i.st = "none" /\ i.g = RealOk}

----------------------------------------------------------------------------
(* The state machine *)

\* the record of an operation, before any has run: its inputs; exc, what
\* it raised; ret, the code run returned; res, what setup_logging returned;
\* ran and runExc, whether main invoked run and what run raised; greet, how
\* run's call of greet ended; and the state it started in
NoOp ==
    [op |-> "none", verbose |-> FALSE, sf |-> NoSetupFault, dt |-> 0,
     cf |-> NoCleanupFault, st |-> "none", g |-> RealOk, argv |-> <<>>,
     ctorFails |-> FALSE, exc |-> NoExc, ret |-> 0, res |-> "", ran |-> FALSE,
     runExc |-> NoExc, greet |-> NotCalled, filesBefore |-> {}, clockBefore |-> 0,
     lmBefore |-> FALSE, appBefore |-> FALSE, handlersBefore |-> <<>>,
     rootHandlersBefore |-> <<>>]

\* the record of an operation started in the current state
Started(op) ==
    [NoOp EXCEPT !.op = op, !.filesBefore = files, !.clockBefore = now,
                 !.lmBefore = lmLogger, !.appBefore = appLogger,
                 !.handlersBefore = mainHandlers,
                 !.rootHandlersBefore = rootHandlers]

Init ==
    /\ now = InitNow
    /\ retention_days \in 0..MaxRetention
    /\ files = InitFiles
    /\ lmLogger = FALSE
    /\ appLogger = FALSE
    /\ mainLevel = "NOTSET"
    /\ mainHandlers = <<>>
    /\ rootLevel = "WARNING"
    /\ rootHandlers = <<>>
    /\ stdout = <<>>
    /\ stderr = <<>>
    /\ logfile = <<>>
    /\ logged = <<>>
    /\ stats = {}
    /\ last = NoOp
    /\ pc = "idle"
    /\ ops = 0

\* the world an operation leaves becomes the state (an action binds the
\* outcome r of its operation with \E r \in {...}, which evaluates it once)
Becomes(W) ==
    /\ now' = W.clock
    /\ files' = W.files
    /\ mainLevel' = W.mainLevel
    /\ mainHandlers' = W.mainHandlers
    /\ rootLevel' = W.rootLevel
    /\ rootHandlers' = W.rootHandlers
    /\ stdout' = W.out
    /\ stderr' = W.err
    /\ logfile' = W.flog
    /\ logged' = W.logged
    /\ stats' = W.stats
    /\ pc' = "done"
    /\ ops' = ops + 1

\* time passes between two operations
Tick ==
    /\ pc = "idle"
    /\ now < MaxTime
    /\ now' = now + 1
    /\ UNCHANGED <<retention_days, files, lmLogger, appLogger, mainLevel, mainHandlers,
                   rootLevel, rootHandlers, stdout, stderr, logfile, logged, stats, last, pc, ops>>

\* a call of LogManager.setup_logging(verbose)
DoSetupLogging ==
    /\ pc = "idle"
    /\ ops < MaxOps
    /\ \E verbose \in BOOLEAN, sf \in SetupFaults, dt \in 0..1, cf \in SetupCleanupFaults :
          /\ cf # NoCleanupFault \/ dt # 0 => sf = NoSetupFault
          /\ now + dt <= MaxTime
          /\ \E r \in {SetupLogging(World, verbose, retention_days, lmLogger, sf, dt, cf)} :
                 /\ Becomes(r.W)
                 /\ lmLogger' = r.lm
                 /\ last' = [Started("setup_logging") EXCEPT
                               !.verbose = verbose, !.sf = sf, !.dt = dt, !.cf = cf,
                               !.exc = r.exc, !.res = r.ret]
    /\ UNCHANGED <<retention_days, appLogger>>

\* a call of LogManager._cleanup_old_logs()
DoCleanupOldLogs ==
    /\ pc = "idle"
    /\ ops < MaxOps
    /\ \E cf \in CleanupFaults :
          \E r \in {CleanupOldLogs(World, retention_days, lmLogger, cf)} :
              /\ Becomes(r.W)
              /\ last' = [Started("cleanup") EXCEPT !.cf = cf, !.exc = r.exc]
    /\ UNCHANGED <<retention_days, lmLogger, appLogger>>

\* a call of Application.run(args)
DoRun ==
    /\ pc = "idle"
    /\ ops < MaxOps
    /\ \E i \in RunInputs :
          /\ now + i.dt <= MaxTime
          /\ \E r \in {Run(World, appLogger, lmLogger, i.verbose, retention_days,
                          i.sf, i.dt, i.cf, i.st, i.g)} :
                 /\ Becomes(r.W)
                 /\ lmLogger' = r.lm
                 /\ appLogger' = r.app
                 /\ last' = [Started("run") EXCEPT
                               !.verbose = i.verbose, !.sf = i.sf, !.dt = i.dt,
                               !.cf = i.cf, !.st = i.st, !.g = i.g,
                               !.exc = r.exc, !.ret = r.ret, !.greet = r.greet]
    /\ UNCHANGED retention_days

\* a call of Application.greet()
DoGreet ==
    /\ pc = "idle"
    /\ ops < MaxOps
    /\ \E g \in RealGreetModes :
          \E r \in {ApplicationGreet(World, appLogger, g)} :
              /\ Becomes(r.W)
              /\ last' = [Started("greet") EXCEPT
                            !.g = g, !.exc = r.exc, !.res = r.ret, !.greet = Called(r)]
    /\ UNCHANGED <<retention_days, lmLogger, appLogger>>

\* a run of main() with sys.argv[1:] = argv, on an Application of its own
DoMain ==
    /\ pc = "idle"
    /\ ops < MaxOps
    /\ \E argv \in Argvs, ctorFails \in BOOLEAN, sf \in SetupFaults, g \in RealGreetModes :
          /\ sf.kind = "interrupt" => g = RealOk
          /\ ctorFails \/ ParseArgs(World, argv).exc # NoExc =>
                sf = NoSetupFault /\ g = RealOk
          /\ \E m \in {Main(World, argv, ctorFails, sf, 0, NoCleanupFault, g)} :
                 /\ Becomes(m.W)
                 /\ last' = [Started("main") EXCEPT
                               !.argv = argv, !.ctorFails = ctorFails, !.sf = sf,
                               !.g = g, !.exc = m.exc, !.ran = m.ran,
                               !.ret = m.run.ret, !.runExc = m.run.exc,
                               !.greet = m.run.greet]
    /\ UNCHANGED <<retention_days, lmLogger, appLogger>>

\* the caller starts to capture the streams afresh before the next operation
NewCapture ==
    /\ pc = "done"
    /\ pc' = "idle"
    /\ stdout' = <<>>
    /\ stderr' = <<>>
    /\ logfile' = <<>>
    /\ logged' = <<>>
    /\ stats' = {}
    /\ last' = NoOp
    /\ UNCHANGED <<now, retention_days, files, lmLogger, appLogger, mainLevel,
                   mainHandlers, rootLevel, rootHandlers, ops>>

Next ==
    \/ Tick
    \/ DoSetupLogging
    \/ DoCleanupOldLogs
    \/ DoRun
    \/ DoGreet
    \/ DoMain
    \/ NewCapture

Spec == Init /\ [][Next]_vars

----------------------------------------------------------------------------
(* Properties *)

Has(seq, rec) == \E i \in 1..Len(seq) : seq[i] = rec
CountMsg(seq, msg) == Cardinality({i \in 1..Len(seq) : seq[i].msg = msg})

RunDone == pc = "done" /\ last.op = "run"
SetupDone == pc = "done" /\ last.op = "setup_logging"
CleanupDone == pc = "done" /\ last.op = "cleanup"
MainDone == pc = "done" /\ last.op = "main"

\* what greet did in the last run
GreetSucceeded == last.greet.called /\ last.greet.exc = NoExc /\ last.greet.ret = "True"
GreetRaised(type) == last.greet.called /\ last.greet.exc.type = type
GreetRaisedUnexpected ==
    /\ last.greet.called
    /\ IsException(last.greet.exc)
    /\ last.greet.exc.type # "ApplicationError"
Returned(code) == last.exc = NoExc /\ last.ret = code

C2_ShutdownOnceAndLast ==
    RunDone =>
        /\ CountMsg(logged, "Application shutdown") = 1
        /\ logged[Len(logged)].msg = "Application shutdown"

\* a user interruption, or another failure, arose in one of run's steps
\* (logging initialization, recording the start, greet)
InterruptArose ==
    \/ last.sf.step # "none" /\ last.sf.kind = "interrupt"
    \/ last.st = "interrupt"
    \/ GreetRaised("KeyboardInterrupt")
FailureArose == last.st = "exc" \/ (last.greet.called /\ IsException(last.greet.exc))

\* C3: run never propagates a failure to its caller: whatever failure or
\* interruption arises in its steps, run returns a code in {0, 1, 130}: 130
\* for a user interruption, 1 for any other failure.
C3_RunNeverPropagates ==
    RunDone =>
        /\ last.exc = NoExc
        /\ last.ret \in {0, 1, 130}
        /\ InterruptArose => last.ret = 130
        /\ FailureArose => last.ret = 1

\* C4: setup_logging never raises and always returns a logger that is not
\* None, for both verbosity settings and whether or not the directory
\* creation or a handler's construction fails.
C4_SetupAlwaysReturnsLogger ==
    SetupDone /\ last.sf.kind # "interrupt" =>
        last.exc = NoExc /\ last.res = "logger"

\* C4's case: the directory creation failed in the first call
C4_Witness ==
    /\ SetupDone
    /\ last.sf = [step |-> "mkdir", kind |-> "exc"]
    /\ ~last.lmBefore
    /\ last.res = "logger"

\* the names of a set of files
Names(fs) == {f.name : f \in fs}
\* the dated-log pattern: app_*.log, with or without a rotated suffix
IsDatedLog(name) ==
    /\ Len(name) >= 2
    /\ Head(name) = "app_"
    /\ \E i \in 2..Len(name) : name[i] = ".log"
\* now - retention_days of the last cleanup pass called on its own
Cutoff == last.clockBefore - retention_days * DayTicks
\* the pass inspected the file and found it modified before the cutoff
FoundExpired(name) == \E st \in stats : st.name = name /\ st.mtime < Cutoff
Inspected(name) == \E st \in stats : st.name = name
\* a sink attached before the pass writes to the file
IsSinkFile(name) ==
    \E i \in 1..Len(last.handlersBefore) : last.handlersBefore[i].file = name

\* C5: a cleanup pass in which nothing fails removes exactly the files of the
\* log directory that match the dated-log pattern and were last modified
\* strictly before now - retention_days; every file modified at or after
\* the cutoff and every file that does not match stays.  (The modification
\* time is the one the pass reads; it is the time the file had when the
\* pass began, unless a sink writes the pass's own records to that file.)
C5_CleanupRemovesExactlyExpired ==
    CleanupDone /\ last.cf = NoCleanupFault =>
        /\ Names(files) \subseteq Names(last.filesBefore)
        /\ \A f \in last.filesBefore :
              /\ IsDatedLog(f.name) => Inspected(f.name)
              /\ f.name \notin Names(files) <=> IsDatedLog(f.name) /\ FoundExpired(f.name)
              /\ ~IsSinkFile(f.name) => \A st \in stats : st.name = f.name => st = f

\* C5's case: one pass removed an expired dated log, kept a dated log
\* modified exactly at the cutoff, and kept an old file that does not match
C5_Witness ==
    /\ CleanupDone /\ last.cf = NoCleanupFault
    /\ \E f \in last.filesBefore :
          IsDatedLog(f.name) /\ f.mtime < Cutoff /\ f.name \notin Names(files)
    /\ \E f \in last.filesBefore :
          IsDatedLog(f.name) /\ f.mtime = Cutoff /\ f \in files
    /\ \E f \in last.filesBefore :
          ~IsDatedLog(f.name) /\ f.mtime < Cutoff /\ f \in files

\* the file was yielded by the enumeration of the pass
WasYielded(name) == ~last.cf.enumFail \/ name \in last.cf.visited
FailedFor(name) == name \in last.cf.statBad \cup last.cf.unlinkBad

\* C6: _cleanup_old_logs returns normally in all cases: a file whose
\* inspection or deletion fails is left untouched and the scan goes on, so
\* every other expired matching file is still deleted in the same pass; a
\* failure of the enumeration is caught too.
C6_CleanupReturnsNormally ==
    CleanupDone =>
        /\ last.exc = NoExc
        /\ \A f \in last.filesBefore :
              /\ FailedFor(f.name) => f \in files
              /\ IsDatedLog(f.name) /\ WasYielded(f.name) /\ f.name \notin last.cf.statBad
                    => Inspected(f.name)
              /\ IsDatedLog(f.name) /\ FoundExpired(f.name) /\ ~FailedFor(f.name)
                    => f.name \notin Names(files)

\* C6's case: the deletion of one expired file failed, the file stayed, and
\* another expired file was deleted in the same pass
C6_Witness ==
    /\ CleanupDone /\ ~last.cf.enumFail
    /\ \E f \in last.filesBefore :
          /\ f.name \in last.cf.unlinkBad /\ FoundExpired(f.name) /\ f \in files
    /\ \E f \in last.filesBefore :
          /\ ~FailedFor(f.name) /\ FoundExpired(f.name) /\ f.name \notin Names(files)

\* C7: on a successful run whose logging setup succeeded, with or without
\* the verbose flag, standard output receives exactly "Hello, world!" and a
\* newline, and nothing else: no log record is written to standard output.
C7_StdoutOnlyGreeting ==
    RunDone /\ last.sf = NoSetupFault /\ GreetSucceeded /\ Returned(0) =>
        stdout = <<Line("PRINT", "Hello, world!", "", "")>>

\* the process ended with this exit code
Exited(code) == last.exc = Exc("SystemExit", code)

\* C8: main always ends the process with a code in {0, 1, 2, 130}: the code
\* run returned when run was reached; the parser's own code (0 for help, 2
\* for an unknown flag), with run not invoked, when parsing ends the
\* process; 1 with the critical-startup-error message on stderr when
\* constructing the Application fails.  Nothing but that process termination
\* leaves main.
C8_MainExitCodes ==
    MainDone =>
        /\ last.exc.type = "SystemExit"
        /\ last.exc.text \in {"0", "1", "2", "130"}
        /\ last.ran /\ last.runExc = NoExc => Exited(ToString(last.ret))
        /\ ~last.ctorFails /\ last.argv \in {<<"-h">>, <<"--help">>}
              => ~last.ran /\ Exited("0")
        /\ ~last.ctorFails /\ last.argv = <<"--invalid-flag">>
              => ~last.ran /\ Exited("2")
        /\ last.ctorFails =>
              /\ ~last.ran /\ Exited("1")
              /\ Has(stderr, Line("PRINT", "Critical error during application startup: ",
                                  "Critical startup error", ""))

\* C8's case: constructing the Application failed and the process ended with 1
C8_Witness == MainDone /\ last.ctorFails /\ Exited("1")

ConsoleLines == {stdout[i] : i \in 1..Len(stdout)} \cup {stderr[i] : i \in 1..Len(stderr)}

\* C9: when run handles an unexpected failure, the text of the exception and
\* its stack trace go to the log file only: no line on stdout or stderr
\* quotes the exception, for both verbosity settings.
C9_NoExceptionTextOnConsole ==
    RunDone /\ (GreetRaisedUnexpected \/ last.st = "exc") =>
        \A l \in ConsoleLines :
            l.detail = "" /\ l.msg # "Unexpected error traceback"

\* C10: whenever the directory creation or a handler's construction fails in
\* setup_logging, the logger returned is a console-only logger at info
\* level: no file sink is attached to it, it emits no debug record, and one
\* error record describing the failure is emitted; for both verbosity
\* settings, whichever step failed, and also after an earlier successful call.
C10_FallbackIsConsoleOnlyInfo ==
    SetupDone /\ last.sf.step # "none" /\ last.sf.kind = "exc" =>
        /\ \A i \in 1..Len(mainHandlers) : mainHandlers[i].kind # "file"
        /\ (IF mainLevel # "NOTSET" THEN mainLevel ELSE rootLevel) = "INFO"
        /\ CountMsg(logged, "Failed to setup advanced logging") = 1

----------------------------------------------------------------------------
\* a call of the shipped greet has ended, directly or inside run or main
GreetDone ==
    /\ pc = "done"
    /\ last.op \in {"greet", "run", "main"}
    /\ last.greet.called
    /\ last.g.impl = "real"

\* C11: whenever greet ends without the user interrupting it, either it
\* wrote 'Hello, world!' to standard output exactly once and returned True,
\* or the write failed, the cause was logged at error severity and greet
\* raised ApplicationError whose message wraps the cause's description;
\* nothing else comes out of it (no other return value, no other exception).
C11_GreetTwoOutcomes ==
    GreetDone /\ last.g.effect # "interrupt" =>
        \/ /\ last.g.effect = "ok"
           /\ last.greet.exc = NoExc
           /\ last.greet.ret = "True"
           /\ Cardinality({i \in 1..Len(stdout) :
                              stdout[i] = Line("PRINT", "Hello, world!", "", "")}) = 1
        \/ /\ last.g.effect = "exc"
           /\ last.greet.exc =
                 Exc("ApplicationError", "Failed to display greeting: " \o last.g.text)
           /\ Has(logged, Line("ERROR", "Error in greeting function", last.g.text, ""))
           /\ \A i \in 1..Len(stdout) : stdout[i].sev # "PRINT"

\* the same with the Application's logger set when greet is called, as run
\* sets it before its call
C11_GreetTwoOutcomesWithLogger ==
    (last.op = "greet" => last.appBefore) => C11_GreetTwoOutcomes

C11_DirectFailureWrapped ==
    /\ pc = "done" /\ last.op = "greet" /\ last.appBefore
    /\ last.g.effect = "exc"
    /\ last.greet.exc.type = "ApplicationError"

----------------------------------------------------------------------------
\* the latest call of setup_logging ran its try to the end
SetupSucceeded == SetupDone /\ last.sf = NoSetupFault

NoRepeat(seq) == \A i, j \in 1..Len(seq) : seq[i] = seq[j] => i = j

\* C12: after a call of setup_logging that succeeded, whatever calls came
\* before it and with whatever verbosity, the logger holds exactly two
\* handlers, the file handler on the current date's file followed by the
\* console handler at the verbosity of this call, and every record of the
\* call was written once to the file and at most once to the console.
C12_TwoSinksAfterSetup ==
    SetupSucceeded =>
        /\ mainHandlers = <<FileHandler(LogFileName(last.clockBefore)),
                            ConsoleHandler(last.verbose)>>
        /\ logfile = logged
        /\ NoRepeat(logfile)
        /\ NoRepeat(stdout)
        /\ \A i \in 1..Len(stdout) : Has(logged, stdout[i])

\* a successful call on a logger that held the two handlers of an earlier
\* call made with the other verbosity
C12_Witness ==
    /\ SetupSucceeded
    /\ Len(last.handlersBefore) = 2
    /\ last.handlersBefore[2] # ConsoleHandler(last.verbose)
    /\ Len(logged) >= 1

----------------------------------------------------------------------------
\* the file the file handler of the latest setup_logging call writes to
CurrentLog == LogFileName(last.clockBefore)

\* C13: after a call of setup_logging that succeeded, for every retention
\* period from 0 up, the current date's log file is in the log directory
\* and has received the confirmation record the call ends with (its
\* modification time is the time of that record).
C13_CurrentLogSurvivesSetup ==
    SetupSucceeded => [name |-> CurrentLog, mtime |-> now] \in files

\* the same for retention periods of a day or more
C13_CurrentLogSurvivesPositiveRetention ==
    retention_days >= 1 => C13_CurrentLogSurvivesSetup

\* with retention 0 and the clock unmoved between the file's creation and
\* the cleanup pass, the file is not older than the cutoff and stays
C13_CurrentLogSurvivesSameInstant ==
    last.dt = 0 => C13_CurrentLogSurvivesSetup

----------------------------------------------------------------------------
\* the latest operation set logging up with verbose false
QuietDone ==
    \/ (SetupDone \/ RunDone) /\ ~last.verbose
    \/ MainDone /\ last.ran /\ last.argv = <<>>

DebugIn(seq) == \E i \in 1..Len(seq) : seq[i].sev = "DEBUG"

\* C14: an operation that sets logging up with verbose false leaves no
\* debug-severity record in any sink, neither in the log file nor on the
\* console streams; in particular the traceback record that run logs for
\* an unexpected error is not in the log file.
C14_NoDebugWhenQuiet ==
    QuietDone =>
        /\ ~DebugIn(logfile)
        /\ ~DebugIn(stdout)
        /\ ~DebugIn(stderr)
        /\ \A i \in 1..Len(logfile) : logfile[i].msg # "Unexpected error traceback"

\* the same when the setup_logging call of the operation ran its try to
\* the end, so that its setLevel took effect
C14_NoDebugWhenQuietSetupSucceeded ==
    last.sf = NoSetupFault => C14_NoDebugWhenQuiet

====
